---- MODULE Spec2Model ----
(***************************************************************************)
(* Model of calculo_utilidad_remisiones/procesar_remisiones.py: the        *)
(* extraction of sale items from the pages of the PDFs of a directory, the *)
(* profit computation against the fixed table COSTOS, and the sheets       *)
(* handed to the Excel writer.                                             *)
(*                                                                         *)
(* A Python str is a sequence of one-character strings; Optional[int] is   *)
(* None (the empty tuple) or Some(v) (a one-element tuple).                *)
(***************************************************************************)
EXTENDS Integers, Sequences, FiniteSets, TLC

None == <<>>
Some(v) == <<v>>

(***************************************************************************)
(* Bounds of the model.                                                    *)
(***************************************************************************)
\* files in the data directory
MaxArchivos == 2
\* pages over all the PDFs of the directory
MaxPaginas == 3

(***************************************************************************)
(* The tables of the module.                                               *)
(***************************************************************************)
\* COSTOS: Dict[str, int]
COSTOS ==
       (<<"P","R","I","V"," ","B","A","R">> :> 13500)
    @@ (<<"S","P","A","C","E","M","A","N">> :> 10500)
    @@ (<<"V","E","L","O","C","I","T","Y">> :> 11000)
    @@ (<<"C","H","R","I","S"," ","B","R","O","W","N"," ","1","5","0","0","0">> :> 11000)
    @@ (<<"S","O","L","A","R","I","S">> :> 14500)
    @@ (<<"D","E","A","T","H"," ","R","O","W">> :> 5000)
    @@ (<<"D","E","A","T","H"," ","R","O","W"," ","5","K">> :> 4800)
    @@ (<<"S","N","O","O","P","Y","S","M","O","K","E">> :> 9000)
    @@ (<<"B","U","G","A","T","T","I">> :> 5000)
    @@ (<<"M","T","R","X","2","5","K">> :> 11600)
    @@ (<<"M","T","R","X","1","2","K">> :> 9300)
    @@ (<<"M","O","V","E","M","E","N","T">> :> 8300)
    @@ (<<"L","O","S","T"," ","M","A","R","Y">> :> 5000)
    @@ (<<"O","R","I","O","N"," ","B","A","R">> :> 8300)
    @@ (<<"I","J","O","Y">> :> 14000)
    @@ (<<"A","I","R","F","U","Z","E">> :> 13700)
    @@ (<<"J","U","D","O">> :> 13500)
    @@ (<<"V","E","R","A">> :> 10300)
    @@ (<<"C","Z","A","R">> :> 8500)
    @@ (<<"M","I","N","T","O","P","I","A">> :> 8500)
    @@ (<<"S","N","O","O","P","Y","3","0","K">> :> 15000)
    @@ (<<"S","P","A","C","E","M","A","N"," ","2","0","K">> :> 12500)
    @@ (<<"C","O","N","N","E","C","T">> :> 16000)
    @@ (<<"H","E","L","L","O"," ","S","Y","N","I","X">> :> 18100)
    @@ (<<"C","A","P","S","U","L","A"," ","T","H","C">> :> 8800)
    @@ (<<"E","Q","U","A","T","O","R">> :> 15000)
    @@ (<<"U","R","A","N","U","S">> :> 10500)
    @@ (<<"B","A","T","E","R","I","A"," ","T","H","C">> :> 7500)
    @@ (<<"L","E","N","T","E","S">> :> 7500)
    @@ (<<"E","L","F"," ","T","H","C">> :> 24000)
    @@ (<<"M","O","T","I">> :> 8500)
    @@ (<<"H","U","K","M","A","N","I","A">> :> 8000)
    @@ (<<"Y","O","V","O">> :> 8000)
    @@ (<<"P","U","L","S","E">> :> 45000)
    @@ (<<"A","I","R","P","O","D","S">> :> 28000)
    @@ (<<"C","R","A","Z","Y","A","C","E">> :> 0)
    @@ (<<"E","L","F","B","A","R","T","E">> :> 5500)
    @@ (<<"A","I","R","B","A","R">> :> 7500)
    @@ (<<"E","A","S","E">> :> 5000)
    @@ (<<"L","I","G","H","T"," ","R","I","S","E">> :> 0)
    @@ (<<"S","M","A","R","T","H"," ","T","C">> :> 13000)
    @@ (<<"N","O","S"," ","K","Y","L","I","N","B","A","R">> :> 12500)
    @@ (<<"N","I","C","K","Y","J","A","M">> :> 9000)
    @@ (<<"F","U","M","E","D","E","S","T","I","L","A","D","O">> :> 21500)

\* LINEA_NO_ITEM_PREFIXES: Tuple[str, ...]
LINEA_NO_ITEM_PREFIXES ==
    << <<"S","E","Ñ","O","R">>,
       <<"S","E","N","O","R">>,
       <<"D","I","R","E","C","C","I","Ó","N">>,
       <<"D","I","R","E","C","C","I","O","N">>,
       <<"C","I","U","D","A","D">>,
       <<"T","E","L","É","F","O","N","O">>,
       <<"T","E","L","E","F","O","N","O">>,
       <<"F","E","C","H","A">>,
       <<"R","E","M","I","S","I","Ó","N">>,
       <<"R","E","M","I","S","I","O","N">>,
       <<"Í","T","E","M">>,
       <<"I","T","E","M">>,
       <<"E","L","A","B","O","R","A","D","O">>,
       <<"S","U","B","T","O","T","A","L">>,
       <<"T","O","T","A","L">>,
       <<"N","I","T">>,
       <<"N","O",".">> >>

(***************************************************************************)
(* Characters: the classes of the re module and str.upper().               *)
(***************************************************************************)
Digitos == {"0", "1", "2", "3", "4", "5", "6", "7", "8", "9"}
Espacios == {" ", "\t", "\n", "\r", "\f"}

Minusculas ==
    <<"a","b","c","d","e","f","g","h","i","j","k","l","m","n","o","p","q","r","s","t",
      "u","v","w","x","y","z","ñ","á","é","í","ó","ú">>
Mayusculas ==
    <<"A","B","C","D","E","F","G","H","I","J","K","L","M","N","O","P","Q","R","S","T",
      "U","V","W","X","Y","Z","Ñ","Á","É","Í","Ó","Ú">>

\* the value of one decimal digit, as int() reads it
ValorDigito(c) ==
    CASE c = "0" -> 0 [] c = "1" -> 1 [] c = "2" -> 2 [] c = "3" -> 3 [] c = "4" -> 4
      [] c = "5" -> 5 [] c = "6" -> 6 [] c = "7" -> 7 [] c = "8" -> 8 [] c = "9" -> 9

\* str.upper() on one character
UpperChar(c) ==
    IF \E i \in 1..Len(Minusculas) : Minusculas[i] = c
    THEN Mayusculas[CHOOSE i \in 1..Len(Minusculas) : Minusculas[i] = c]
    ELSE c

\* str.upper()
Upper(s) == [i \in 1..Len(s) |-> UpperChar(s[i])]

\* str.strip(): without the leading and the trailing whitespace
Strip(s) ==
    LET negros == {i \in 1..Len(s) : s[i] \notin Espacios}
    IN IF negros = {} THEN <<>>
       ELSE SubSeq(s, CHOOSE i \in negros : \A j \in negros : i <= j,
                      CHOOSE i \in negros : \A j \in negros : j <= i)

\* str.startswith(prefijo)
StartsWith(s, prefijo) ==
    /\ Len(prefijo) <= Len(s)
    /\ SubSeq(s, 1, Len(prefijo)) = prefijo

\* str.endswith(sufijo)
EndsWith(s, sufijo) ==
    /\ Len(sufijo) <= Len(s)
    /\ SubSeq(s, Len(s) - Len(sufijo) + 1, Len(s)) = sufijo

\* str.lower() on the characters file names are made of
Lower(s) ==
    [i \in 1..Len(s) |->
        IF \E k \in 1..Len(Mayusculas) : Mayusculas[k] = s[i]
        THEN Minusculas[CHOOSE k \in 1..Len(Mayusculas) : Mayusculas[k] = s[i]]
        ELSE s[i]]

\* str.split("\n"): the pieces between the newlines, empty pieces kept
RECURSIVE SplitLineas(_)
SplitLineas(texto) ==
    LET saltos == {i \in 1..Len(texto) : texto[i] = "\n"}
    IN IF saltos = {} THEN <<texto>>
       ELSE LET p == CHOOSE i \in saltos : \A j \in saltos : i <= j
            IN <<SubSeq(texto, 1, p - 1)>> \o SplitLineas(SubSeq(texto, p + 1, Len(texto)))

(***************************************************************************)
(* parse_entero and normalizar_texto_producto.                             *)
(***************************************************************************)
\* int() of a string of decimal digits
RECURSIVE ValorEntero(_)
ValorEntero(ds) ==
    IF ds = <<>> THEN 0
    ELSE 10 * ValorEntero(SubSeq(ds, 1, Len(ds) - 1)) + ValorDigito(ds[Len(ds)])

\* re.sub(r"[^\d]", "", valor_texto)
SoloDigitos(s) == SelectSeq(s, LAMBDA c : c \in Digitos)

parse_entero(valor_texto) ==
    LET texto_limpio == SoloDigitos(valor_texto)
    IN IF texto_limpio = <<>> THEN None ELSE Some(ValorEntero(texto_limpio))

\* re.sub(r"\s+", " ", s): every run of whitespace becomes one space
RECURSIVE ColapsarEspacios(_)
ColapsarEspacios(s) ==
    IF s = <<>> THEN <<>>
    ELSE IF s[1] \in Espacios
         THEN IF Len(s) > 1 /\ s[2] \in Espacios
              THEN ColapsarEspacios(Tail(s))
              ELSE <<" ">> \o ColapsarEspacios(Tail(s))
         ELSE <<s[1]>> \o ColapsarEspacios(Tail(s))

normalizar_texto_producto(nombre) == ColapsarEspacios(Strip(Upper(nombre)))

(***************************************************************************)
(* LINEA_ITEM_REGEX: a concatenation of quantified character classes,      *)
(* matched as re.match does it: each class takes as many characters as it *)
(* can (as few, when lazy) and gives back (takes more) until the rest of   *)
(* the pattern matches.                                                    *)
(***************************************************************************)
Atomo(clase, minimo, opcional, perezoso, grupo) ==
    [clase |-> clase, minimo |-> minimo, opcional |-> opcional,
     perezoso |-> perezoso, grupo |-> grupo]

LINEA_ITEM_REGEX ==
    << Atomo("s", 0, FALSE, FALSE, ""),         \* ^\s*
       Atomo(".", 1, FALSE, TRUE, "prod"),      \* (?P<prod>.+?)
       Atomo("s", 1, FALSE, FALSE, ""),         \* \s+
       Atomo("$", 0, TRUE, FALSE, ""),          \* \$?
       Atomo("n", 1, FALSE, FALSE, "p_unit"),   \* (?P<p_unit>[\d\.,]+)
       Atomo("s", 1, FALSE, FALSE, ""),         \* \s+
       Atomo("d", 1, FALSE, FALSE, "cant"),     \* (?P<cant>\d+)
       Atomo("s", 1, FALSE, FALSE, ""),         \* \s+
       Atomo("S", 1, FALSE, FALSE, ""),         \* \S+
       Atomo("s", 1, FALSE, FALSE, ""),         \* \s+
       Atomo("$", 0, TRUE, FALSE, ""),          \* \$?
       Atomo("n", 1, FALSE, FALSE, "total"),    \* (?P<total>[\d\.,]+)
       Atomo("s", 0, FALSE, FALSE, "") >>       \* \s*$

EnClase(c, clase) ==
    CASE clase = "s" -> c \in Espacios
      [] clase = "." -> c # "\n"
      [] clase = "$" -> c = "$"
      [] clase = "n" -> c \in Digitos \cup {".", ","}
      [] clase = "d" -> c \in Digitos
      [] clase = "S" -> c \notin Espacios

\* how many characters of s from pos on are in the class
RECURSIVE Racha(_, _, _)
Racha(s, pos, clase) ==
    IF pos <= Len(s) /\ EnClase(s[pos], clase) THEN 1 + Racha(s, pos + 1, clase) ELSE 0

\* $ without re.MULTILINE: the end of the string, or just before a final newline
FinDeCadena(s, pos) ==
    \/ pos = Len(s) + 1
    \/ pos = Len(s) /\ s[pos] = "\n"

\* The lengths the atoms i.. take when the pattern matches s from pos: Some(lengths),
\* or None when it does not match.  Intentar tries atom i with n characters, then
\* with the next length in the atom's order of preference.
RECURSIVE MatchDesde(_, _, _), Intentar(_, _, _, _, _)
Intentar(s, pos, i, n, tope) ==
    LET a == LINEA_ITEM_REGEX[i]
        resto == MatchDesde(s, pos + n, i + 1)
    IN IF resto # None THEN Some(<<n>> \o resto[1])
       ELSE IF a.perezoso
            THEN IF n < tope THEN Intentar(s, pos, i, n + 1, tope) ELSE None
            ELSE IF n > a.minimo THEN Intentar(s, pos, i, n - 1, tope) ELSE None

MatchDesde(s, pos, i) ==
    IF i > Len(LINEA_ITEM_REGEX)
    THEN IF FinDeCadena(s, pos) THEN Some(<<>>) ELSE None
    ELSE LET a == LINEA_ITEM_REGEX[i]
             racha == Racha(s, pos, a.clase)
             tope == IF a.opcional /\ racha > 1 THEN 1 ELSE racha
         IN IF tope < a.minimo THEN None
            ELSE Intentar(s, pos, i, IF a.perezoso THEN a.minimo ELSE tope, tope)

\* LINEA_ITEM_REGEX.match(linea)
Match(linea) == MatchDesde(linea, 1, 1)

\* coincidencia.group(grupo)
RECURSIVE Suma(_, _)
Suma(ns, k) == IF k = 0 THEN 0 ELSE ns[k] + Suma(ns, k - 1)

Group(linea, coincidencia, grupo) ==
    LET ns == coincidencia[1]
        i == CHOOSE k \in 1..Len(LINEA_ITEM_REGEX) : LINEA_ITEM_REGEX[k].grupo = grupo
    IN SubSeq(linea, Suma(ns, i - 1) + 1, Suma(ns, i))

(***************************************************************************)
(* es_linea_item                                                           *)
(***************************************************************************)
es_linea_item(linea) ==
    IF ~(\E i \in 1..Len(linea) : linea[i] = "$") THEN FALSE
    ELSE LET contenido == Upper(Strip(linea))
         IN IF \E k \in 1..Len(LINEA_NO_ITEM_PREFIXES) :
                   StartsWith(contenido, LINEA_NO_ITEM_PREFIXES[k])
            THEN FALSE
            ELSE Match(linea) # None

(***************************************************************************)
(* extraer_items_desde_pdf: the body of the loop over the lines of a page. *)
(* ItemDeLinea is the items one line appends: none or one.                 *)
(***************************************************************************)
\* as ItemDeLinea, without the strip of the product capture
ItemDeLineaSinStrip(linea) ==
    IF ~es_linea_item(linea) THEN <<>>
    ELSE LET coincidencia == Match(linea)
         IN IF coincidencia = None THEN <<>>
            ELSE LET producto == Group(linea, coincidencia, "prod")
                     precio_unitario == parse_entero(Group(linea, coincidencia, "p_unit"))
                     cantidad == parse_entero(Group(linea, coincidencia, "cant"))
                     total_venta == parse_entero(Group(linea, coincidencia, "total"))
                 IN IF None \in {precio_unitario, cantidad, total_venta} THEN <<>>
                    ELSE << [Producto |-> producto,
                             Precio_Venta_Unitario |-> precio_unitario[1],
                             Cantidad |-> cantidad[1],
                             Total_Venta_Item |-> total_venta[1]] >>

\* as ItemDeLinea, with 0 for a numeric capture parse_entero does not read
ItemDeLineaConCero(linea) ==
    IF ~es_linea_item(linea) THEN <<>>
    ELSE LET coincidencia == Match(linea)
             Cero(v) == IF v = None THEN 0 ELSE v[1]
         IN IF coincidencia = None THEN <<>>
            ELSE << [Producto |-> Strip(Group(linea, coincidencia, "prod")),
                     Precio_Venta_Unitario |->
                         Cero(parse_entero(Group(linea, coincidencia, "p_unit"))),
                     Cantidad |-> Cero(parse_entero(Group(linea, coincidencia, "cant"))),
                     Total_Venta_Item |->
                         Cero(parse_entero(Group(linea, coincidencia, "total")))] >>

ItemDeLinea(linea) ==
    IF ~es_linea_item(linea) THEN <<>>
    ELSE LET coincidencia == Match(linea)
         IN IF coincidencia = None THEN <<>>
            ELSE LET producto == Strip(Group(linea, coincidencia, "prod"))
                     precio_unitario == parse_entero(Group(linea, coincidencia, "p_unit"))
                     cantidad == parse_entero(Group(linea, coincidencia, "cant"))
                     total_venta == parse_entero(Group(linea, coincidencia, "total"))
                 IN IF None \in {precio_unitario, cantidad, total_venta} THEN <<>>
                    ELSE << [Producto |-> producto,
                             Precio_Venta_Unitario |-> precio_unitario[1],
                             Cantidad |-> cantidad[1],
                             Total_Venta_Item |-> total_venta[1]] >>

RECURSIVE ItemsDeLineas(_)
ItemsDeLineas(lineas) ==
    IF lineas = <<>> THEN <<>>
    ELSE ItemDeLinea(Head(lineas)) \o ItemsDeLineas(Tail(lineas))

(***************************************************************************)
(* The data directory.  A file is its name and, for a PDF, what pdfplumber *)
(* makes of it: whether pdfplumber.open succeeds, and its pages.  A page   *)
(* is "ERROR" (extract_text raises), "NONE" (extract_text returns None) or *)
(* the name of the text extract_text returns.                              *)
(***************************************************************************)
Textos ==
    \*   'priv   bar $18.000 2 10% $32.400'
    \*   'BAR $., 1 0% $5.000'
    \*   'FOO $5.000 1 0 $5.000'
    \*   '  $1 2 x 3'
    \*   'foo 7 2 $ 15'
    [ ejemplo |->
        <<"p","r","i","v"," "," "," ","b","a","r"," ","$","1","8",".","0","0","0"," ","2",
          " ","1","0","%"," ","$","3","2",".","4","0","0","\n","B","A","R"," ","$",".",",",
          " ","1"," ","0","%"," ","$","5",".","0","0","0","\n","F","O","O"," ","$","5",".",
          "0","0","0"," ","1"," ","0"," ","$","5",".","0","0","0","\n"," "," ","$","1"," ",
          "2"," ","x"," ","3","\n","f","o","o"," ","7"," ","2"," ","$"," ","1","5">>,
    \*   'TOTAL $9.000 1 0% $9.000'
    \*   ' crazyace\t$9.000 1 0% $9.000 '
    \*   'ease $4.000 3 0 $12.000'
      cero |->
        <<"T","O","T","A","L"," ","$","9",".","0","0","0"," ","1"," ","0","%"," ","$","9",
          ".","0","0","0","\n"," ","c","r","a","z","y","a","c","e","\t","$","9",".","0","0",
          "0"," ","1"," ","0","%"," ","$","9",".","0","0","0"," ","\n","e","a","s","e"," ",
          "$","4",".","0","0","0"," ","3"," ","0"," ","$","1","2",".","0","0","0">>,
    \*   'FECHA 2024'
    \*   'EASE 6.000 1 0 6.000'
    \*   'IJOY $14.000'
      sin_items |->
        <<"F","E","C","H","A"," ","2","0","2","4","\n","E","A","S","E"," ","6",".","0","0",
          "0"," ","1"," ","0"," ","6",".","0","0","0","\n","I","J","O","Y"," ","$","1","4",
          ".","0","0","0">> ]

Paginas == {"ERROR", "NONE"} \cup DOMAIN Textos

NombresPdf == { <<"B",".","P","D","F">>, <<"a",".","p","d","f">> }
NombresOtros == { <<"n",".","t","x","t">> }

NoPdf == [abre |-> FALSE, paginas |-> <<>>]

\* the names of at most MaxArchivos files, all different, in every order os.listdir
\* may give them
ListasDeNombres ==
    { ns \in UNION { [1..n -> NombresPdf \cup NombresOtros] : n \in 0..MaxArchivos } :
        \A j1, j2 \in 1..Len(ns) : j1 # j2 => ns[j1] # ns[j2] }

\* how many of the first j names are names of PDFs
NumPdfs(ns, j) == Cardinality({h \in 1..j : ns[h] \in NombresPdf})

\* The directory of the files named ns.  Its PDFs share the pages ps: the PDF number m
\* has those after cortes[m - 1] up to cortes[m], and opens when abre[m].
Directorio(ns, ps, cortes, abre) ==
    [j \in 1..Len(ns) |->
        [nombre |-> ns[j],
         pdf |-> IF ns[j] \in NombresPdf
                 THEN LET m == NumPdfs(ns, j)
                      IN [abre |-> abre[m],
                          paginas |-> SubSeq(ps, (IF m = 1 THEN 0 ELSE cortes[m - 1]) + 1,
                                             cortes[m])]
                 ELSE NoPdf]]

\* cortes and abre share out the pages ps among m PDFs: every page belongs to one PDF,
\* and a PDF that does not open has none
EsReparto(m, ps, cortes, abre) ==
    /\ \A j \in 1..(m - 1) : cortes[j] <= cortes[j + 1]
    /\ IF m = 0 THEN ps = <<>> ELSE cortes[m] = Len(ps)
    /\ \A j \in 1..m : ~abre[j] => cortes[j] = (IF j = 1 THEN 0 ELSE cortes[j - 1])

(***************************************************************************)
(* sorted(), on strings compared by code point.                            *)
(***************************************************************************)
OrdenUnicode ==
    <<"\t","\n","\f","\r"," ","$","%","+",",",".","0","1","2","3","4","5","6","7","8","9",
      "A","B","C","D","E","F","G","H","I","J","K","L","M","N","O","P","Q","R","S","T","U",
      "V","W","X","Y","Z","a","b","c","d","e","f","g","h","i","j","k","l","m","n","o","p",
      "q","r","s","t","u","v","w","x","y","z","Á","É","Í","Ñ","Ó","Ú","á","é","í","ñ","ó","ú">>

Ord(c) == CHOOSE i \in 1..Len(OrdenUnicode) : OrdenUnicode[i] = c

\* a < b for two str
RECURSIVE StrMenor(_, _)
StrMenor(a, b) ==
    IF b = <<>> THEN FALSE
    ELSE IF a = <<>> THEN TRUE
    ELSE IF a[1] = b[1] THEN StrMenor(Tail(a), Tail(b))
    ELSE Ord(a[1]) < Ord(b[1])

\* sorted(xs) for strings: insertion into the sorted rest
RECURSIVE Insertar(_, _)
Insertar(x, ys) ==
    IF ys = <<>> THEN <<x>>
    ELSE IF StrMenor(Head(ys), x) THEN <<Head(ys)>> \o Insertar(x, Tail(ys))
    ELSE <<x>> \o ys

RECURSIVE Sorted(_)
Sorted(xs) == IF xs = <<>> THEN <<>> ELSE Insertar(Head(xs), Sorted(Tail(xs)))

\* sorted(a set of strings)
RECURSIVE SortedSet(_)
SortedSet(S) ==
    IF S = {} THEN <<>>
    ELSE LET x == CHOOSE y \in S : TRUE IN Insertar(x, SortedSet(S \ {x}))

\* sep.join(xs)
RECURSIVE Join(_, _)
Join(sep, xs) ==
    IF xs = <<>> THEN <<>>
    ELSE IF Len(xs) = 1 THEN xs[1]
    ELSE xs[1] \o sep \o Join(sep, Tail(xs))

\* os.path.splitext(nombre)[0]: up to the last dot, unless only dots precede it
Splitext0(nombre) ==
    LET puntos == {i \in 1..Len(nombre) : nombre[i] = "."}
    IN IF puntos = {} THEN nombre
       ELSE LET d == CHOOSE i \in puntos : \A j \in puntos : j <= i
            IN IF \E j \in 1..(d - 1) : nombre[j] # "." THEN SubSeq(nombre, 1, d - 1)
               ELSE nombre

(***************************************************************************)
(* extraer_items_desde_pdf                                                 *)
(***************************************************************************)
\* texto = pagina.extract_text() or ""
extract_text(pagina) == IF pagina = "NONE" THEN None ELSE Some(Textos[pagina])

TextoDePagina(pagina) ==
    LET t == extract_text(pagina) IN IF t = None THEN <<>> ELSE t[1]

\* the items the lines of one page append, computed once for each page
ItemsDePagina ==
    [pagina \in Paginas \ {"ERROR"} |-> ItemsDeLineas(SplitLineas(TextoDePagina(pagina)))]

\* the loop over pdf.pages inside the try: the items so far when a page raises
RECURSIVE ItemsDePaginas(_, _)
ItemsDePaginas(paginas, items) ==
    IF paginas = <<>> THEN [items |-> items, error |-> FALSE]
    ELSE IF Head(paginas) = "ERROR" THEN [items |-> items, error |-> TRUE]
    ELSE ItemsDePaginas(Tail(paginas), items \o ItemsDePagina[Head(paginas)])

\* the items returned, and whether the except branch printed the failure
extraer_items_desde_pdf(pdf) ==
    IF ~pdf.abre THEN [items |-> <<>>, error |-> TRUE]
    ELSE ItemsDePaginas(pdf.paginas, <<>>)

(***************************************************************************)
(* procesar_remisiones                                                     *)
(***************************************************************************)
VARIABLES
    carpeta_data,              \* the data directory, as os.listdir gives it
    pc,                        \* "inicio", "for" (head of the loop over the files),
                               \* "items" (inside the loop over items_pdf), "fin"
    archivos,                  \* sorted(os.listdir(carpeta_data))
    n_archivo,                 \* position of nombre_archivo in archivos
    items_pdf,
    n_item,                    \* position of item in items_pdf
    total_ventas_remision,
    total_ganancias_remision,
    productos_en_remision,
    resumen_remisiones,
    detalle_items,
    productos_desconocidos,
    hojas_excel,               \* None, or Some(the sheets written to the Excel file)
    consola                    \* what print has written

vars ==
    <<carpeta_data, pc, archivos, n_archivo, items_pdf, n_item, total_ventas_remision,
      total_ganancias_remision, productos_en_remision, resumen_remisiones, detalle_items,
      productos_desconocidos, hojas_excel, consola>>

Init ==
    /\ \E ns \in ListasDeNombres, t \in 0..MaxPaginas :
          \E ps \in [1..t -> Paginas] :
             \E cortes \in [1..NumPdfs(ns, Len(ns)) -> 0..t],
                abre \in [1..NumPdfs(ns, Len(ns)) -> BOOLEAN] :
                /\ EsReparto(NumPdfs(ns, Len(ns)), ps, cortes, abre)
                /\ carpeta_data = Directorio(ns, ps, cortes, abre)
    /\ pc = "inicio"
    /\ archivos = <<>>
    /\ n_archivo = 0
    /\ items_pdf = <<>>
    /\ n_item = 0
    /\ total_ventas_remision = 0
    /\ total_ganancias_remision = 0
    /\ productos_en_remision = {}
    /\ resumen_remisiones = <<>>
    /\ detalle_items = <<>>
    /\ productos_desconocidos = {}
    /\ hojas_excel = None
    /\ consola = <<>>

Mensaje(msg, arg) == [msg |-> msg, arg |-> arg]

\* os.listdir(carpeta_data)
listdir(carpeta) == [j \in 1..Len(carpeta) |-> carpeta[j].nombre]

\* pdfplumber.open(ruta_pdf), for the file of that name in carpeta_data
AbrirPdf(nombre) ==
    carpeta_data[CHOOSE j \in 1..Len(carpeta_data) : carpeta_data[j].nombre = nombre].pdf

\* nombre_archivo.lower().endswith(".pdf")
EsPdf(nombre_archivo) == EndsWith(Lower(nombre_archivo), <<".", "p", "d", "f">>)

\* COSTOS.get(producto_normalizado)
COSTOS_get(producto_normalizado) ==
    IF producto_normalizado \in DOMAIN COSTOS THEN Some(COSTOS[producto_normalizado])
    ELSE None

\* as Ganancia, testing the cost for truth and not against None
GananciaSiCostoVerdadero(costo_unitario, precio_venta_unitario, cantidad) ==
    IF costo_unitario # None /\ costo_unitario[1] # 0
    THEN [unidad |-> Some(precio_venta_unitario - costo_unitario[1]),
          item |-> Some((precio_venta_unitario - costo_unitario[1]) * cantidad)]
    ELSE [unidad |-> None, item |-> None]

\* ganancia_unidad and ganancia_item of one item
Ganancia(costo_unitario, precio_venta_unitario, cantidad) ==
    IF costo_unitario # None
    THEN [unidad |-> Some(precio_venta_unitario - costo_unitario[1]),
          item |-> Some((precio_venta_unitario - costo_unitario[1]) * cantidad)]
    ELSE [unidad |-> None, item |-> None]

\* total_ganancias_remision after one item
SumarGanancia(total_ganancias, ganancia_item) ==
    IF ganancia_item # None THEN total_ganancias + ganancia_item[1] ELSE total_ganancias

\* as SumarVenta, inside the branch of the known cost
SumarVentaSoloConCosto(total_ventas, total_venta_item, costo_unitario) ==
    IF costo_unitario # None THEN total_ventas + total_venta_item ELSE total_ventas

\* total_ventas_remision after one item
SumarVenta(total_ventas, total_venta_item, costo_unitario) == total_ventas + total_venta_item

\* as AnotarDesconocido, outside the else branch
AnotarSiempre(desconocidos, producto_normalizado, costo_unitario) ==
    desconocidos \cup {producto_normalizado}

\* productos_desconocidos after one item
AnotarDesconocido(desconocidos, producto_normalizado, costo_unitario) ==
    IF costo_unitario # None THEN desconocidos ELSE desconocidos \cup {producto_normalizado}

\* the record appended to detalle_items
FilaDetalle(nombre_remision, item, costo_unitario, ganancia) ==
    [Remision |-> nombre_remision,
     Producto |-> item.Producto,
     Cantidad |-> item.Cantidad,
     Precio_Venta_Unitario |-> item.Precio_Venta_Unitario,
     Total_Venta_Item |-> item.Total_Venta_Item,
     Costo_Unitario |-> costo_unitario,
     Ganancia_Unidad |-> ganancia.unidad,
     Ganancia_Item |-> ganancia.item]

\* the record appended to resumen_remisiones
FilaResumen(nombre_remision, total_ventas, total_ganancias, productos) ==
    [Remision |-> nombre_remision,
     Total_Ventas_COP |-> total_ventas,
     Total_Ganancias_COP |-> total_ganancias,
     Detalle_de_Items |-> Join(<<" ", "+", " ">>, SortedSet(productos))]

\* str(n) for n >= 0
RECURSIVE Str(_)
Str(n) ==
    LET d == <<"0", "1", "2", "3", "4", "5", "6", "7", "8", "9">>[(n % 10) + 1]
    IN IF n < 10 THEN <<d>> ELSE Str(n \div 10) \o <<d>>

RECURSIVE SumaColumna(_, _)
SumaColumna(filas, columna) ==
    IF filas = <<>> THEN 0 ELSE Head(filas)[columna] + SumaColumna(Tail(filas), columna)

\* fila_total
FilaTotal(resumen) ==
    [Remision |-> <<"T","O","T","A","L"," ","(">> \o Str(Len(resumen))
                    \o <<" ","r","e","m","i","s","i","o","n","e","s",")">>,
     Total_Ventas_COP |-> SumaColumna(resumen, "Total_Ventas_COP"),
     Total_Ganancias_COP |-> SumaColumna(resumen, "Total_Ganancias_COP"),
     Detalle_de_Items |-> Str(Len(resumen)) \o <<" ","r","e","m","i","s","i","o","n","e","s">>]

\* as HojaResumen, with the TOTAL row first
HojaResumenTotalPrimero(resumen) == <<FilaTotal(resumen)>> \o resumen

\* df_resumen with the TOTAL row
HojaResumen(resumen) == Append(resumen, FilaTotal(resumen))

\* hojas_excel, in the order the sheets are written
HojasExcel(resumen, detalle, desconocidos) ==
    << [hoja |-> "Resumen", filas |-> HojaResumen(resumen)],
       [hoja |-> "Detalle_Items", filas |-> detalle] >>
      \o (IF desconocidos # {}
          THEN << [hoja |-> "Pendientes",
                   filas |-> [j \in 1..Cardinality(desconocidos) |->
                       [Producto_no_en_tabla_costos |-> SortedSet(desconocidos)[j]]]] >>
          ELSE <<>>)

\* as Inicio, without sorted()
InicioSinOrdenar ==
    /\ pc = "inicio"
    /\ pc' = "for"
    /\ archivos' = listdir(carpeta_data)
    /\ n_archivo' = 1
    /\ resumen_remisiones' = <<>>
    /\ detalle_items' = <<>>
    /\ productos_desconocidos' = {}
    /\ UNCHANGED <<carpeta_data, items_pdf, n_item, total_ventas_remision,
                   total_ganancias_remision, productos_en_remision, hojas_excel, consola>>

\* os.makedirs, the empty accumulators, and sorted(os.listdir(carpeta_data))
Inicio ==
    /\ pc = "inicio"
    /\ pc' = "for"
    /\ archivos' = Sorted(listdir(carpeta_data))
    /\ n_archivo' = 1
    /\ resumen_remisiones' = <<>>
    /\ detalle_items' = <<>>
    /\ productos_desconocidos' = {}
    /\ UNCHANGED <<carpeta_data, items_pdf, n_item, total_ventas_remision,
                   total_ganancias_remision, productos_en_remision, hojas_excel, consola>>

\* a file that is no PDF: continue
ArchivoNoPdf ==
    /\ pc = "for"
    /\ n_archivo <= Len(archivos)
    /\ ~EsPdf(archivos[n_archivo])
    /\ n_archivo' = n_archivo + 1
    /\ UNCHANGED <<carpeta_data, pc, archivos, items_pdf, n_item, total_ventas_remision,
                   total_ganancias_remision, productos_en_remision, resumen_remisiones,
                   detalle_items, productos_desconocidos, hojas_excel, consola>>

\* what the iteration prints up to the return of extraer_items_desde_pdf
MensajesExtraccion(nombre_archivo, extraido) ==
    <<Mensaje("Procesando remisión", Splitext0(nombre_archivo))>>
      \o (IF extraido.error THEN <<Mensaje("No se pudo procesar el PDF", nombre_archivo)>>
          ELSE <<>>)

\* as PdfSinItems, with a row of zeros in the summary
PdfSinItemsConFila ==
    /\ pc = "for"
    /\ n_archivo <= Len(archivos)
    /\ EsPdf(archivos[n_archivo])
    /\ LET extraido == extraer_items_desde_pdf(AbrirPdf(archivos[n_archivo]))
       IN /\ extraido.items = <<>>
          /\ consola' = consola \o MensajesExtraccion(archivos[n_archivo], extraido)
                \o <<Mensaje("No se encontraron ítems", archivos[n_archivo])>>
    /\ resumen_remisiones' = Append(resumen_remisiones,
          FilaResumen(Splitext0(archivos[n_archivo]), 0, 0, {}))
    /\ n_archivo' = n_archivo + 1
    /\ UNCHANGED <<carpeta_data, pc, archivos, items_pdf, n_item, total_ventas_remision,
                   total_ganancias_remision, productos_en_remision, detalle_items,
                   productos_desconocidos, hojas_excel>>

\* a PDF with no items: it is left out of the summary
PdfSinItems ==
    /\ pc = "for"
    /\ n_archivo <= Len(archivos)
    /\ EsPdf(archivos[n_archivo])
    /\ LET extraido == extraer_items_desde_pdf(AbrirPdf(archivos[n_archivo]))
       IN /\ extraido.items = <<>>
          /\ consola' = consola \o MensajesExtraccion(archivos[n_archivo], extraido)
                \o <<Mensaje("No se encontraron ítems", archivos[n_archivo])>>
    /\ n_archivo' = n_archivo + 1
    /\ UNCHANGED <<carpeta_data, pc, archivos, items_pdf, n_item, total_ventas_remision,
                   total_ganancias_remision, productos_en_remision, resumen_remisiones,
                   detalle_items, productos_desconocidos, hojas_excel>>

\* a PDF with items: the totals of the remision start at zero
PdfConItems ==
    /\ pc = "for"
    /\ n_archivo <= Len(archivos)
    /\ EsPdf(archivos[n_archivo])
    /\ LET extraido == extraer_items_desde_pdf(AbrirPdf(archivos[n_archivo]))
       IN /\ extraido.items # <<>>
          /\ items_pdf' = extraido.items
          /\ consola' = consola \o MensajesExtraccion(archivos[n_archivo], extraido)
    /\ pc' = "items"
    /\ n_item' = 1
    /\ total_ventas_remision' = 0
    /\ total_ganancias_remision' = 0
    /\ productos_en_remision' = {}
    /\ UNCHANGED <<carpeta_data, archivos, n_archivo, resumen_remisiones, detalle_items,
                   productos_desconocidos, hojas_excel>>

\* one iteration of the loop over items_pdf
ProcesarItem ==
    /\ pc = "items"
    /\ n_item <= Len(items_pdf)
    /\ LET item == items_pdf[n_item]
           producto_normalizado == normalizar_texto_producto(item.Producto)
           costo_unitario == COSTOS_get(producto_normalizado)
           ganancia == Ganancia(costo_unitario, item.Precio_Venta_Unitario, item.Cantidad)
       IN /\ total_ganancias_remision' = SumarGanancia(total_ganancias_remision, ganancia.item)
          /\ productos_desconocidos' =
                AnotarDesconocido(productos_desconocidos, producto_normalizado, costo_unitario)
          /\ total_ventas_remision' =
                SumarVenta(total_ventas_remision, item.Total_Venta_Item, costo_unitario)
          /\ productos_en_remision' = productos_en_remision \cup {producto_normalizado}
          /\ detalle_items' = Append(detalle_items,
                FilaDetalle(Splitext0(archivos[n_archivo]), item, costo_unitario, ganancia))
    /\ n_item' = n_item + 1
    /\ UNCHANGED <<carpeta_data, pc, archivos, n_archivo, items_pdf, resumen_remisiones,
                   hojas_excel, consola>>

\* after the last item: the row of the remision
AgregarResumen ==
    /\ pc = "items"
    /\ n_item > Len(items_pdf)
    /\ resumen_remisiones' = Append(resumen_remisiones,
          FilaResumen(Splitext0(archivos[n_archivo]), total_ventas_remision,
                      total_ganancias_remision, productos_en_remision))
    /\ consola' = Append(consola,
          Mensaje("Total ventas | Ganancias",
                  <<total_ventas_remision, total_ganancias_remision>>))
    /\ pc' = "for"
    /\ n_archivo' = n_archivo + 1
    /\ UNCHANGED <<carpeta_data, archivos, items_pdf, n_item, total_ventas_remision,
                   total_ganancias_remision, productos_en_remision, detalle_items,
                   productos_desconocidos, hojas_excel>>

\* as NadaProcesado, without the return
NadaProcesadoYEscribe ==
    /\ pc = "for"
    /\ n_archivo > Len(archivos)
    /\ resumen_remisiones = <<>>
    /\ consola' = Append(consola, Mensaje("No se procesaron remisiones", <<>>))
    /\ hojas_excel' =
          Some(HojasExcel(resumen_remisiones, detalle_items, productos_desconocidos))
    /\ pc' = "fin"
    /\ UNCHANGED <<carpeta_data, archivos, n_archivo, items_pdf, n_item,
                   total_ventas_remision, total_ganancias_remision, productos_en_remision,
                   resumen_remisiones, detalle_items, productos_desconocidos>>

\* after the loop, with no row in resumen_remisiones: return
NadaProcesado ==
    /\ pc = "for"
    /\ n_archivo > Len(archivos)
    /\ resumen_remisiones = <<>>
    /\ consola' = Append(consola, Mensaje("No se procesaron remisiones", <<>>))
    /\ pc' = "fin"
    /\ UNCHANGED <<carpeta_data, archivos, n_archivo, items_pdf, n_item,
                   total_ventas_remision, total_ganancias_remision, productos_en_remision,
                   resumen_remisiones, detalle_items, productos_desconocidos, hojas_excel>>

\* after the loop, with rows: the sheets are written
EscribirExcel ==
    /\ pc = "for"
    /\ n_archivo > Len(archivos)
    /\ resumen_remisiones # <<>>
    /\ hojas_excel' =
          Some(HojasExcel(resumen_remisiones, detalle_items, productos_desconocidos))
    /\ consola' = consola \o <<Mensaje("Archivo Excel generado", <<>>)>>
          \o (IF productos_desconocidos # {}
              THEN <<Mensaje("Productos sin costo definido",
                             Join(<<",", " ">>, SortedSet(productos_desconocidos)))>>
              ELSE <<>>)
    /\ pc' = "fin"
    /\ UNCHANGED <<carpeta_data, archivos, n_archivo, items_pdf, n_item,
                   total_ventas_remision, total_ganancias_remision, productos_en_remision,
                   resumen_remisiones, detalle_items, productos_desconocidos>>

Next ==
    \/ Inicio
    \/ ArchivoNoPdf
    \/ PdfSinItems
    \/ PdfConItems
    \/ ProcesarItem
    \/ AgregarResumen
    \/ NadaProcesado
    \/ EscribirExcel

Spec == Init /\ [][Next]_vars

(***************************************************************************)
(* What the properties speak of, read off the data directory.              *)
(***************************************************************************)
\* the items extraer_items_desde_pdf returns for the file of that name
ItemsDe(nombre) == extraer_items_desde_pdf(AbrirPdf(nombre)).items

\* the documents among the first n of archivos that yield at least one item
ConItems(n) ==
    SelectSeq(SubSeq(archivos, 1, n), LAMBDA a : EsPdf(a) /\ ItemsDe(a) # <<>>)

\* the documents whose iteration of the loop is over
Terminados == ConItems(IF n_archivo = 0 THEN 0 ELSE n_archivo - 1)

\* the products the pages can yield, and their normalized names computed once
ProductosDePaginas ==
    UNION { { ItemsDePagina[p][j].Producto : j \in 1..Len(ItemsDePagina[p]) }
            : p \in DOMAIN ItemsDePagina }

NombreNormalizado ==
    [producto \in ProductosDePaginas |-> normalizar_texto_producto(producto)]

Normalizado(producto) ==
    IF producto \in ProductosDePaginas THEN NombreNormalizado[producto]
    ELSE normalizar_texto_producto(producto)

CostoConocido(producto) == Normalizado(producto) \in DOMAIN COSTOS

CostoDe(producto) == COSTOS[Normalizado(producto)]

RECURSIVE SumaVentas(_)
SumaVentas(items) ==
    IF items = <<>> THEN 0 ELSE Head(items).Total_Venta_Item + SumaVentas(Tail(items))

RECURSIVE SumaGanancias(_)
SumaGanancias(items) ==
    IF items = <<>> THEN 0
    ELSE (IF CostoConocido(Head(items).Producto)
          THEN (Head(items).Precio_Venta_Unitario - CostoDe(Head(items).Producto))
                 * Head(items).Cantidad
          ELSE 0) + SumaGanancias(Tail(items))

(***************************************************************************)
(* C1: the row of a document in resumen_remisiones has, as Total_Ventas_COP,*)
(* the sum of Total_Venta_Item over every item extracted from that         *)
(* document, and as Total_Ganancias_COP the sum of (unit price - unit      *)
(* cost) * quantity over its items of known cost only; nothing of another  *)
(* document enters either total.                                           *)
(***************************************************************************)
C1_TotalesPorRemision ==
    /\ Len(resumen_remisiones) = Len(Terminados)
    /\ \A r \in 1..Len(resumen_remisiones) :
          /\ resumen_remisiones[r].Total_Ventas_COP = SumaVentas(ItemsDe(Terminados[r]))
          /\ resumen_remisiones[r].Total_Ganancias_COP = SumaGanancias(ItemsDe(Terminados[r]))

\* two documents with rows, one of them with an item of unknown cost and an item of
\* known cost
C1_Witness ==
    /\ Len(resumen_remisiones) = 2
    /\ \E r \in 1..2 : \E j1, j2 \in 1..Len(ItemsDe(Terminados[r])) :
          /\ CostoConocido(ItemsDe(Terminados[r])[j1].Producto)
          /\ ~CostoConocido(ItemsDe(Terminados[r])[j2].Producto)
    /\ resumen_remisiones[1].Total_Ventas_COP # resumen_remisiones[2].Total_Ventas_COP

(***************************************************************************)
(* C2: in every record of detalle_items, Costo_Unitario is None exactly    *)
(* when the normalized product is no key of COSTOS, and so are             *)
(* Ganancia_Unidad and Ganancia_Item; a product of cost 0 is known, with   *)
(* profit unit price * quantity; the profit of an unknown product is never *)
(* recorded as a number.                                                   *)
(***************************************************************************)
C2_CostoAusenteSiDesconocido ==
    \A d \in 1..Len(detalle_items) :
       LET f == detalle_items[d]
       IN IF CostoConocido(f.Producto)
          THEN /\ f.Costo_Unitario = Some(CostoDe(f.Producto))
               /\ f.Ganancia_Unidad = Some(f.Precio_Venta_Unitario - CostoDe(f.Producto))
               /\ f.Ganancia_Item =
                     Some((f.Precio_Venta_Unitario - CostoDe(f.Producto)) * f.Cantidad)
               /\ CostoDe(f.Producto) = 0 =>
                     f.Ganancia_Item = Some(f.Precio_Venta_Unitario * f.Cantidad)
          ELSE /\ f.Costo_Unitario = None
               /\ f.Ganancia_Unidad = None
               /\ f.Ganancia_Item = None

\* a record of a product of cost 0 and a record of an unknown product
C2_Witness ==
    /\ \E d \in 1..Len(detalle_items) :
          /\ CostoConocido(detalle_items[d].Producto)
          /\ CostoDe(detalle_items[d].Producto) = 0
          /\ detalle_items[d].Ganancia_Item = Some(9000)
    /\ \E d \in 1..Len(detalle_items) :
          /\ ~CostoConocido(detalle_items[d].Producto)
          /\ detalle_items[d].Ganancia_Item = None

(***************************************************************************)
(* C3: when opening the document fails, or extracting the text of any of   *)
(* its pages does, the document contributes no items: the loop over        *)
(* items_pdf is never entered for it.                                      *)
(***************************************************************************)
FallaLectura(pdf) ==
    \/ ~pdf.abre
    \/ \E j \in 1..Len(pdf.paginas) : pdf.paginas[j] = "ERROR"

C3_LecturaFallidaSinItems ==
    pc = "items" => ~FallaLectura(AbrirPdf(archivos[n_archivo]))

(***************************************************************************)
(* The lines of the pages, and what the grammar of an item line says of    *)
(* each, computed once for each page.                                      *)
(***************************************************************************)
LineasDePagina == [p \in Paginas \ {"ERROR"} |-> SplitLineas(TextoDePagina(p))]

\* the pages read before the document fails, if it does
RECURSIVE HastaElError(_)
HastaElError(paginas) ==
    IF paginas = <<>> \/ Head(paginas) = "ERROR" THEN <<>>
    ELSE <<Head(paginas)>> \o HastaElError(Tail(paginas))

PaginasLeidas(pdf) == IF pdf.abre THEN HastaElError(pdf.paginas) ELSE <<>>

\* the line passes the classifier and matches the pattern
EsCandidata(linea) == es_linea_item(linea) /\ Match(linea) # None

\* parse_entero reads the three numeric captures of a candidate line
NumericosLegibles(linea) ==
    \A g \in {"p_unit", "cant", "total"} : parse_entero(Group(linea, Match(linea), g)) # None

\* the parsed captures of a candidate line with readable numerics
RegistroDe(linea) ==
    [Producto |-> Strip(Group(linea, Match(linea), "prod")),
     Precio_Venta_Unitario |-> parse_entero(Group(linea, Match(linea), "p_unit"))[1],
     Cantidad |-> parse_entero(Group(linea, Match(linea), "cant"))[1],
     Total_Venta_Item |-> parse_entero(Group(linea, Match(linea), "total"))[1]]

RECURSIVE RegistrosDe(_)
RegistrosDe(lineas) ==
    IF lineas = <<>> THEN <<>>
    ELSE (IF EsCandidata(Head(lineas)) /\ NumericosLegibles(Head(lineas))
          THEN <<RegistroDe(Head(lineas))>> ELSE <<>>) \o RegistrosDe(Tail(lineas))

RegistrosDePagina == [p \in Paginas \ {"ERROR"} |-> RegistrosDe(LineasDePagina[p])]

\* a candidate line on which parse_entero returns None for some numeric capture
EsDescartada(linea) == EsCandidata(linea) /\ ~NumericosLegibles(linea)

CandidatasDePagina ==
    [p \in Paginas \ {"ERROR"} |-> Len(SelectSeq(LineasDePagina[p], EsCandidata))]

DescartadasDePagina ==
    [p \in Paginas \ {"ERROR"} |-> Len(SelectSeq(LineasDePagina[p], EsDescartada))]

\* the items of the page once its discarded lines are taken out of the text
ItemsSinDescartadas ==
    [p \in Paginas \ {"ERROR"} |->
        ItemsDeLineas(SelectSeq(LineasDePagina[p], LAMBDA l : ~EsDescartada(l)))]

\* a discarded line of the page stands between two lines that give items
DescartadaEntreItems(p) ==
    \E j1, j2, j3 \in 1..Len(LineasDePagina[p]) :
       /\ j1 < j2 /\ j2 < j3
       /\ EsDescartada(LineasDePagina[p][j2])
       /\ RegistrosDe(<<LineasDePagina[p][j1]>>) # <<>>
       /\ RegistrosDe(<<LineasDePagina[p][j3]>>) # <<>>

PaginasConDescartadaEntreItems == {p \in Paginas \ {"ERROR"} : DescartadaEntreItems(p)}

RECURSIVE Concatenar(_, _)
Concatenar(f, ps) == IF ps = <<>> THEN <<>> ELSE f[Head(ps)] \o Concatenar(f, Tail(ps))

RECURSIVE Sumar(_, _)
Sumar(f, ps) == IF ps = <<>> THEN 0 ELSE f[Head(ps)] + Sumar(f, Tail(ps))

PdfActual == AbrirPdf(archivos[n_archivo])

(***************************************************************************)
(* C5: every line that matches the grammar of an item line and whose       *)
(* numerics parse gives exactly one item, whose product, unit price,       *)
(* quantity and line total are the parsed captures (the product capture    *)
(* stripped, the numeric captures through parse_entero); no other line     *)
(* gives an item.                                                          *)
(***************************************************************************)
C5_UnItemPorLineaValida ==
    /\ \A j \in 1..Len(carpeta_data) :
          EsPdf(carpeta_data[j].nombre) =>
             ItemsDe(carpeta_data[j].nombre)
               = Concatenar(RegistrosDePagina, PaginasLeidas(carpeta_data[j].pdf))
    /\ pc = "items" =>
          items_pdf = Concatenar(RegistrosDePagina, PaginasLeidas(PdfActual))

\* the items of a document of two pages, the first the example page (two spellings of
\* whitespace in the product, a discount, a line with an empty product)
C5_Witness ==
    /\ pc = "items"
    /\ Len(PaginasLeidas(PdfActual)) = 2
    /\ PaginasLeidas(PdfActual)[1] = "ejemplo"
    /\ Len(items_pdf) > Len(RegistrosDePagina["ejemplo"])
    /\ items_pdf[1] = [Producto |-> <<"p","r","i","v"," "," "," ","b","a","r">>,
                       Precio_Venta_Unitario |-> 18000, Cantidad |-> 2,
                       Total_Venta_Item |-> 32400]

(***************************************************************************)
(* C9: a line that passes the classifier and matches the pattern, but on   *)
(* which parse_entero returns None for the unit price, the quantity or the *)
(* line total, appends no record, neither with a zero nor with some of the *)
(* fields; the lines before and after it give the items they give without  *)
(* it.                                                                     *)
(***************************************************************************)
C9_LineaDescartadaEntera ==
    pc = "items" =>
       /\ Len(items_pdf) = Sumar(CandidatasDePagina, PaginasLeidas(PdfActual))
                             - Sumar(DescartadasDePagina, PaginasLeidas(PdfActual))
       /\ items_pdf = Concatenar(ItemsSinDescartadas, PaginasLeidas(PdfActual))
       /\ \A j \in 1..Len(items_pdf) :
             /\ DOMAIN items_pdf[j]
                  = {"Producto", "Precio_Venta_Unitario", "Cantidad", "Total_Venta_Item"}
             /\ items_pdf[j].Precio_Venta_Unitario \in Nat
             /\ items_pdf[j].Cantidad \in Nat
             /\ items_pdf[j].Total_Venta_Item \in Nat

\* the items of a document with a page where a discarded line ('BAR $., 1 0% $5.000')
\* stands between two lines that give items
C9_Witness ==
    /\ pc = "items"
    /\ \E j \in 1..Len(PaginasLeidas(PdfActual)) :
          PaginasLeidas(PdfActual)[j] \in PaginasConDescartadaEntreItems
    /\ Len(items_pdf) >= 2

(***************************************************************************)
(* The documents of the directory, processed or not.                       *)
(***************************************************************************)
\* the names of the PDFs of the directory
Pdfs == {carpeta_data[j].nombre : j \in {h \in 1..Len(carpeta_data) : EsPdf(carpeta_data[h].nombre)}}

\* the documents that yield at least one item, as a set
PdfsConItems == {a \in Pdfs : ItemsDe(a) # <<>>}

RECURSIVE Cuantos(_, _)
Cuantos(mensajes, msg) ==
    IF mensajes = <<>> THEN 0
    ELSE (IF Head(mensajes).msg = msg THEN 1 ELSE 0) + Cuantos(Tail(mensajes), msg)

RECURSIVE NumItems(_)
NumItems(nombres) ==
    IF nombres = <<>> THEN 0 ELSE Len(ItemsDe(Head(nombres))) + NumItems(Tail(nombres))

\* the number written in the label of the TOTAL row
CuentaDeTotal(fila) == ValorEntero(SoloDigitos(fila.Remision))

EsFilaTotal(fila) == StartsWith(fila.Remision, <<"T","O","T","A","L"," ","(">>)

(***************************************************************************)
(* C4: a document for which the extractor yields no item adds no row to    *)
(* resumen_remisiones, no record to detalle_items and no name to           *)
(* productos_desconocidos, is not counted in the TOTAL row, and does not   *)
(* end the run: every document of the directory is processed.              *)
(***************************************************************************)
C4_DocumentoSinItemsNoAporta ==
    LET con_items == PdfsConItems
    IN /\ Len(resumen_remisiones) = Len(Terminados)
       /\ Len(detalle_items)
            = NumItems(Terminados) + (IF pc = "items" THEN n_item - 1 ELSE 0)
       /\ \A u \in productos_desconocidos :
             \E j \in 1..Len(detalle_items) :
                /\ Normalizado(detalle_items[j].Producto) = u
                /\ \E a \in con_items : detalle_items[j].Remision = Splitext0(a)
       /\ pc = "fin" =>
             /\ n_archivo = Len(carpeta_data) + 1
             /\ Cuantos(consola, "Procesando remisión") = Cardinality(Pdfs)
             /\ Cuantos(consola, "No se encontraron ítems") = Cardinality(Pdfs \ con_items)
             /\ hojas_excel # None =>
                   CuentaDeTotal(hojas_excel[1][1].filas[Len(hojas_excel[1][1].filas)])
                     = Cardinality(con_items)

\* a run that ends with the Excel file written, where the first document in sorted order
\* yields no item and the second does
C4_Witness ==
    /\ pc = "fin"
    /\ hojas_excel # None
    /\ Len(archivos) = 2
    /\ archivos[1] \in Pdfs \ PdfsConItems
    /\ archivos[2] \in PdfsConItems

(***************************************************************************)
(* C6: the Resumen sheet is one row for each document that yielded at      *)
(* least one item, then one TOTAL row, the last; the count in the label of *)
(* the TOTAL row is the number of document rows, and its Total_Ventas_COP  *)
(* and Total_Ganancias_COP are the sums of those columns over the document *)
(* rows.                                                                   *)
(***************************************************************************)
C6_ResumenConFilaTotal ==
    hojas_excel # None =>
       LET hoja == hojas_excel[1][1]
           n == Len(hoja.filas) - 1
           documentos == ConItems(Len(archivos))
       IN /\ hoja.hoja = "Resumen"
          /\ n = Len(documentos)
          /\ n = Cardinality(PdfsConItems)
          /\ \A r \in 1..n :
                /\ hoja.filas[r] = resumen_remisiones[r]
                /\ hoja.filas[r].Remision = Splitext0(documentos[r])
                /\ ~EsFilaTotal(hoja.filas[r])
          /\ EsFilaTotal(hoja.filas[n + 1])
          /\ hoja.filas[n + 1].Remision
               = <<"T","O","T","A","L"," ","(">> \o Str(n)
                   \o <<" ","r","e","m","i","s","i","o","n","e","s",")">>
          /\ CuentaDeTotal(hoja.filas[n + 1]) = n
          /\ hoja.filas[n + 1].Total_Ventas_COP
               = Sumar([r \in 1..n |-> hoja.filas[r].Total_Ventas_COP],
                       [r \in 1..n |-> r])
          /\ hoja.filas[n + 1].Total_Ganancias_COP
               = Sumar([r \in 1..n |-> hoja.filas[r].Total_Ganancias_COP],
                       [r \in 1..n |-> r])

\* the file written for two documents with items, with different totals
C6_Witness ==
    /\ hojas_excel # None
    /\ Len(hojas_excel[1][1].filas) = 3
    /\ hojas_excel[1][1].filas[1].Total_Ganancias_COP
         # hojas_excel[1][1].filas[2].Total_Ganancias_COP
    /\ hojas_excel[1][1].filas[3].Total_Ganancias_COP
         # hojas_excel[1][1].filas[3].Total_Ventas_COP

(***************************************************************************)
(* C7: when the directory has no document, or no document yields an item,  *)
(* the run ends after the console message and writes no file; the sheets   *)
(* are written only with at least one row in resumen_remisiones.           *)
(***************************************************************************)
C7_SinRemisionesNoEscribe ==
    /\ hojas_excel # None => pc = "fin" /\ Len(resumen_remisiones) >= 1
    /\ pc = "fin" =>
          /\ hojas_excel # None <=> PdfsConItems # {}
          /\ hojas_excel = None =>
                /\ consola # <<>>
                /\ consola[Len(consola)].msg = "No se procesaron remisiones"
                /\ Cuantos(consola, "Archivo Excel generado") = 0

\* a run that ends with nothing written though the directory has a PDF
C7_Witness ==
    /\ pc = "fin"
    /\ hojas_excel = None
    /\ Pdfs # {}

(***************************************************************************)
(* C8: at the end of the run productos_desconocidos is the set of the      *)
(* normalized product names, over all the items of all the documents, that *)
(* are no key of COSTOS; the Pendientes sheet is written exactly when the  *)
(* set is not empty, third after Resumen and Detalle_Items, with each name *)
(* once.                                                                   *)
(***************************************************************************)
NombresSinCosto ==
    UNION { { Normalizado(ItemsDe(a)[j].Producto) : j \in 1..Len(ItemsDe(a)) }
            : a \in Pdfs } \ DOMAIN COSTOS

C8_ProductosDesconocidos ==
    LET sin_costo == NombresSinCosto
    IN /\ productos_desconocidos \cap DOMAIN COSTOS = {}
       /\ productos_desconocidos \subseteq sin_costo
       /\ pc = "fin" => productos_desconocidos = sin_costo
       /\ hojas_excel # None =>
             LET hojas == hojas_excel[1]
             IN /\ hojas[1].hoja = "Resumen"
                /\ hojas[2].hoja = "Detalle_Items"
                /\ \A h \in 1..Len(hojas) : hojas[h].hoja = "Pendientes" => h = 3
                /\ IF sin_costo # {}
                   THEN /\ Len(hojas) = 3
                        /\ hojas[3].hoja = "Pendientes"
                        /\ Len(hojas[3].filas) = Cardinality(sin_costo)
                        /\ { hojas[3].filas[j].Producto_no_en_tabla_costos
                               : j \in 1..Len(hojas[3].filas) } = sin_costo
                   ELSE Len(hojas) = 2

\* the file written after the same unknown name came from two documents, in two
\* spellings, beside another unknown name
C8_Witness ==
    /\ hojas_excel # None
    /\ Len(hojas_excel[1]) = 3
    /\ Cardinality(productos_desconocidos) = 2
    /\ \E d1, d2 \in 1..Len(detalle_items) :
          /\ detalle_items[d1].Remision # detalle_items[d2].Remision
          /\ detalle_items[d1].Producto # detalle_items[d2].Producto
          /\ Normalizado(detalle_items[d1].Producto)
               = Normalizado(detalle_items[d2].Producto)
          /\ ~CostoConocido(detalle_items[d1].Producto)

\* a file written without the Pendientes sheet
C8_WitnessSinPendientes ==
    /\ hojas_excel # None
    /\ Len(hojas_excel[1]) = 2

(***************************************************************************)
(* C10: the documents are processed one after another in sorted order of   *)
(* file name; the rows of resumen_remisiones are in that order; the        *)
(* records of one document are contiguous in detalle_items, before those   *)
(* of any document of a later file name, in page order then line order; a  *)
(* record, once appended, is never changed or removed.                     *)
(***************************************************************************)
\* Producto, Cantidad, Precio_Venta_Unitario and Total_Venta_Item of the records
\* detalle_items must hold for the items of the document, in their order
RegistrosDeDocumento(nombre) ==
    [j \in 1..Len(ItemsDe(nombre)) |->
        [Remision |-> Splitext0(nombre),
         Producto |-> ItemsDe(nombre)[j].Producto,
         Cantidad |-> ItemsDe(nombre)[j].Cantidad,
         Precio_Venta_Unitario |-> ItemsDe(nombre)[j].Precio_Venta_Unitario,
         Total_Venta_Item |-> ItemsDe(nombre)[j].Total_Venta_Item]]

RECURSIVE RegistrosDeDocumentos(_)
RegistrosDeDocumentos(nombres) ==
    IF nombres = <<>> THEN <<>>
    ELSE RegistrosDeDocumento(Head(nombres)) \o RegistrosDeDocumentos(Tail(nombres))

SinCostos(fila) ==
    [Remision |-> fila.Remision, Producto |-> fila.Producto, Cantidad |-> fila.Cantidad,
     Precio_Venta_Unitario |-> fila.Precio_Venta_Unitario,
     Total_Venta_Item |-> fila.Total_Venta_Item]

EsPrefijo(s, t) == Len(s) <= Len(t) /\ SubSeq(t, 1, Len(s)) = s

C10_EnOrden ==
    /\ pc # "inicio" =>
          /\ Len(archivos) = Len(carpeta_data)
          /\ {archivos[j] : j \in 1..Len(archivos)}
               = {carpeta_data[j].nombre : j \in 1..Len(carpeta_data)}
          /\ \A j1, j2 \in 1..Len(archivos) : j1 < j2 => StrMenor(archivos[j1], archivos[j2])
    /\ \A r \in 1..Len(resumen_remisiones) :
          r <= Len(Terminados) /\ resumen_remisiones[r].Remision = Splitext0(Terminados[r])
    /\ [d \in 1..Len(detalle_items) |-> SinCostos(detalle_items[d])]
         = RegistrosDeDocumentos(Terminados)
             \o (IF pc = "items"
                 THEN SubSeq(RegistrosDeDocumento(archivos[n_archivo]), 1, n_item - 1)
                 ELSE <<>>)

C10_UnoTrasOtro ==
    /\ EsPrefijo(detalle_items, detalle_items')
    /\ EsPrefijo(resumen_remisiones, resumen_remisiones')
    /\ pc # "inicio" => archivos' = archivos /\ n_archivo' \in {n_archivo, n_archivo + 1}
    /\ Len(detalle_items') <= Len(detalle_items) + 1
    /\ pc = "items" /\ pc' = "items" => n_item' = n_item + 1 /\ n_archivo' = n_archivo

C10_OrdenDeProceso == [](C10_EnOrden) /\ [][C10_UnoTrasOtro]_vars

\* the end of a run over two documents with items that os.listdir gave in the other
\* order, the first in sorted order with items on two pages
C10_Witness ==
    /\ pc = "fin"
    /\ Len(resumen_remisiones) = 2
    /\ Len(carpeta_data) = 2
    /\ carpeta_data[1].nombre = archivos[2]
    /\ Len(PaginasLeidas(AbrirPdf(archivos[1]))) = 2
    /\ \A j \in 1..2 : RegistrosDePagina[PaginasLeidas(AbrirPdf(archivos[1]))[j]] # <<>>
====
